---- MODULE Spec2Model ----
(***************************************************************************)
(* A model of homework.py, the fitness tracker module: the three training  *)
(* classes (Running, SportsWalking, Swimming), the dispatcher read_package, *)
(* InfoMessage and its formatter, and the __main__ script.                  *)
(*                                                                         *)
(* Numbers.  Python's int and float values are modelled as exact rational  *)
(* numbers [s, n, d] (sign, numerator, denominator), the numerator and the *)
(* denominator being naturals of unbounded size held as little-endian      *)
(* sequences of limbs in base 10000.  Every formula is evaluated in the    *)
(* order the source evaluates it.  What the model leaves out is the        *)
(* rounding of IEEE doubles (0.9936 is 0.9935999999999999 in the program)  *)
(* and the sign of a zero.  A raised exception is the record [exc, arg].   *)
(***************************************************************************)
EXTENDS Integers, Sequences, FiniteSets

(***************************************************************************)
(* Naturals of unbounded size.                                             *)
(***************************************************************************)
Base == 10000

RECURSIVE Trim(_)
Trim(a) ==
  IF a = <<>> THEN a
  ELSE IF a[Len(a)] = 0 THEN Trim(SubSeq(a, 1, Len(a) - 1))
  ELSE a

RECURSIVE NatToBig(_)
NatToBig(k) ==
  IF k = 0 THEN <<>> ELSE <<k % Base>> \o NatToBig(k \div Base)

RECURSIVE BigToNat(_)
BigToNat(a) ==
  IF a = <<>> THEN 0 ELSE Head(a) + Base * BigToNat(Tail(a))

RECURSIVE BAddC(_, _, _)
BAddC(a, b, c) ==
  IF a = <<>> /\ b = <<>>
  THEN IF c = 0 THEN <<>> ELSE <<c>>
  ELSE LET x == IF a = <<>> THEN 0 ELSE Head(a)
           y == IF b = <<>> THEN 0 ELSE Head(b)
           s == x + y + c
       IN <<s % Base>> \o BAddC(IF a = <<>> THEN a ELSE Tail(a),
                                IF b = <<>> THEN b ELSE Tail(b),
                                s \div Base)

BAdd(a, b) == BAddC(a, b, 0)

\* a - b - c for a >= b + c, before the leading zero limbs are removed.
RECURSIVE BSubC(_, _, _)
BSubC(a, b, c) ==
  IF a = <<>> THEN <<>>
  ELSE LET y == IF b = <<>> THEN 0 ELSE Head(b)
           t == Head(a) - y - c
       IN <<IF t < 0 THEN t + Base ELSE t>>
          \o BSubC(Tail(a), IF b = <<>> THEN b ELSE Tail(b),
                   IF t < 0 THEN 1 ELSE 0)

BSub(a, b) == Trim(BSubC(a, b, 0))

RECURSIVE BMulSmallC(_, _, _)
BMulSmallC(a, m, c) ==
  IF a = <<>>
  THEN IF c = 0 THEN <<>> ELSE <<c>>
  ELSE LET p == Head(a) * m + c
       IN <<p % Base>> \o BMulSmallC(Tail(a), m, p \div Base)

BMulSmall(a, m) == Trim(BMulSmallC(a, m, 0))

BShift(a) == IF a = <<>> THEN a ELSE <<0>> \o a

RECURSIVE BMul(_, _)
BMul(a, b) ==
  IF b = <<>> THEN <<>>
  ELSE BAdd(BMulSmall(a, Head(b)), BShift(BMul(a, Tail(b))))

RECURSIVE BLessFrom(_, _, _)
BLessFrom(a, b, i) ==
  IF i = 0 THEN FALSE
  ELSE IF a[i] # b[i] THEN a[i] < b[i]
  ELSE BLessFrom(a, b, i - 1)

BLess(a, b) ==
  IF Len(a) # Len(b) THEN Len(a) < Len(b) ELSE BLessFrom(a, b, Len(a))

BLeq(a, b) == ~BLess(b, a)

\* The largest c in lo..hi with b * c <= r (b * lo <= r is given).
RECURSIVE QLimb(_, _, _, _)
QLimb(r, b, lo, hi) ==
  IF lo = hi THEN lo
  ELSE LET mid == (lo + hi + 1) \div 2
       IN IF BLeq(BMulSmall(b, mid), r)
          THEN QLimb(r, b, mid, hi)
          ELSE QLimb(r, b, lo, mid - 1)

\* Long division of a by b > 0: [q |-> a div b, r |-> a mod b].
RECURSIVE BDivMod(_, _)
BDivMod(a, b) ==
  IF a = <<>> THEN [q |-> <<>>, r |-> <<>>]
  ELSE LET hi  == BDivMod(Tail(a), b)
           cur == Trim(<<Head(a)>> \o hi.r)
           c   == QLimb(cur, b, 0, Base - 1)
       IN [q |-> Trim(<<c>> \o hi.q), r |-> BSub(cur, BMulSmall(b, c))]

(***************************************************************************)
(* Exceptions and exact rational arithmetic.                               *)
(***************************************************************************)
Exc(kind, arg) == [exc |-> kind, arg |-> arg]
IsExc(v) == "exc" \in DOMAIN v
ZeroDivisionError == Exc("ZeroDivisionError", "")

Abs(i) == IF i < 0 THEN -i ELSE i

\* The number k / scale: an int literal is Num(k, 1), 0.65 is Num(65, 100).
Num(k, scale) ==
  [s |-> IF k < 0 THEN -1 ELSE 1, n |-> NatToBig(Abs(k)), d |-> NatToBig(scale)]

IsNum(v) == "n" \in DOMAIN v

IsZero(a) == a.n = <<>>

RMul(a, b) ==
  IF IsExc(a) THEN a ELSE IF IsExc(b) THEN b
  ELSE LET m == BMul(a.n, b.n)
       IN [s |-> IF m = <<>> THEN 1 ELSE a.s * b.s, n |-> m, d |-> BMul(a.d, b.d)]

RDiv(a, b) ==
  IF IsExc(a) THEN a ELSE IF IsExc(b) THEN b
  ELSE IF IsZero(b) THEN ZeroDivisionError
  ELSE LET m == BMul(a.n, b.d)
       IN [s |-> IF m = <<>> THEN 1 ELSE a.s * b.s, n |-> m, d |-> BMul(a.d, b.n)]

RAdd(a, b) ==
  IF IsExc(a) THEN a ELSE IF IsExc(b) THEN b
  ELSE LET x == BMul(a.n, b.d)
           y == BMul(b.n, a.d)
           d == BMul(a.d, b.d)
       IN IF a.s = b.s THEN [s |-> IF BAdd(x, y) = <<>> THEN 1 ELSE a.s,
                             n |-> BAdd(x, y), d |-> d]
          ELSE IF x = y THEN [s |-> 1, n |-> <<>>, d |-> d]
          ELSE IF BLess(y, x) THEN [s |-> a.s, n |-> BSub(x, y), d |-> d]
          ELSE [s |-> b.s, n |-> BSub(y, x), d |-> d]

RSquare(a) == RMul(a, a)

\* Two numbers are the same number (the representation is not reduced).
REq(a, b) ==
  /\ IsNum(a) /\ IsNum(b)
  /\ a.s = b.s
  /\ BMul(a.n, b.d) = BMul(b.n, a.d)

(***************************************************************************)
(* The format specification .3f of InfoMessage.get_message: the value      *)
(* rounded to thousandths, ties to the even thousandth, as the sign, the   *)
(* integer part and the three decimals of the printed text.                *)
(***************************************************************************)
Fmt3(v) ==
  LET dm   == BDivMod(BMulSmall(v.n, 1000), v.d)
      twoR == BMulSmall(dm.r, 2)
      low  == BigToNat(dm.q)
      up   == BLess(v.d, twoR) \/ (twoR = v.d /\ low % 2 = 1)
      q    == IF up THEN low + 1 ELSE low
  IN [neg |-> v.s = -1, int |-> q \div 1000, frac |-> q % 1000]

(***************************************************************************)
(* class InfoMessage                                                       *)
(***************************************************************************)
InfoMessage(training_type, duration, distance, speed, calories) ==
  [training_type |-> training_type, duration |-> duration,
   distance |-> distance, speed |-> speed, calories |-> calories]

IsInfoMessage(v) == "training_type" \in DOMAIN v

\* The text is the fixed template; the model keeps the five values it holds.
get_message(self) ==
  [text |-> <<self.training_type,
              Fmt3(Num(self.duration, 1)),
              Fmt3(self.distance),
              Fmt3(self.speed),
              Fmt3(self.calories)>>]

(***************************************************************************)
(* class Training and its subclasses.  An object is a record of its class  *)
(* name and its instance attributes, which hold the numbers of the package *)
(* as they came (integers).                                                *)
(***************************************************************************)
M_IN_KM == 1000
HOUR_IN_MINUTES == 60
Training_LEN_STEP == Num(65, 100)
Swimming_LEN_STEP == Num(138, 100)

\* The attribute lookup self.LEN_STEP without Swimming's own value.
LEN_STEP_Inherited(self) == Training_LEN_STEP

\* The attribute lookup self.LEN_STEP: Swimming overrides the class constant.
LEN_STEP(self) ==
  IF self.cls = "Swimming" THEN Swimming_LEN_STEP ELSE Training_LEN_STEP

Training_init(cls, action, duration, weight) ==
  [cls |-> cls, action |-> action, duration |-> duration, weight |-> weight]

IsTraining(v) == "cls" \in DOMAIN v

get_distance(self) ==
  LET action  == Num(self.action, 1)
      m_in_km == Num(M_IN_KM, 1)
      len_step == LEN_STEP(self)
  IN RDiv(RMul(action, len_step), m_in_km)

\* A mean speed of distance times duration.
Training_get_mean_speed_Times(self) ==
  RMul(get_distance(self), Num(self.duration, 1))

Training_get_mean_speed(self) ==
  LET distance == get_distance(self)
      duration == Num(self.duration, 1)
  IN RDiv(distance, duration)

Training_get_spent_calories(self) == Num(0, 1)

(***************************************************************************)
(* class Running                                                           *)
(***************************************************************************)
CALORIES_MEAN_SPEED_MULTIPLIER == 18
\* The shift of the formula's earlier revision, 18 * speed - 20.
CALORIES_MEAN_SPEED_SHIFT_Old == Num(-20, 1)

CALORIES_MEAN_SPEED_SHIFT == Num(179, 100)

(***************************************************************************)
(* class SportsWalking                                                     *)
(***************************************************************************)
WALK_COEFFICIENT_1 == Num(35, 1000)
WALK_COEFFICIENT_2 == Num(29, 1000)
KMH_in_MS == Num(278, 1000)
SM_in_M == 100

SportsWalking_init(action, duration, weight, height) ==
  [cls |-> "SportsWalking", action |-> action, duration |-> duration,
   weight |-> weight, height |-> height]

(***************************************************************************)
(* class Swimming                                                          *)
(***************************************************************************)
SWIM_COEFFICIENT_1 == Num(11, 10)
SWIM_COEFFICIENT_2 == 2

Swimming_init(action, duration, weight, length_pool, count_pool) ==
  [cls |-> "Swimming", action |-> action, duration |-> duration,
   weight |-> weight, length_pool |-> length_pool, count_pool |-> count_pool]

Swimming_get_mean_speed(self) ==
  LET length_pool == Num(self.length_pool, 1)
      count_pool  == Num(self.count_pool, 1)
      m_in_km     == Num(M_IN_KM, 1)
      distance    == RDiv(RMul(length_pool, count_pool), m_in_km)
      duration    == Num(self.duration, 1)
  IN RDiv(distance, duration)

\* The method resolution of self.get_mean_speed().
get_mean_speed(self) ==
  IF self.cls = "Swimming" THEN Swimming_get_mean_speed(self)
  ELSE Training_get_mean_speed(self)

\* Running's calories without the shift added to the speed term.
Running_get_spent_calories_NoShift(self) ==
  RMul(RMul(RDiv(RMul(RMul(Num(CALORIES_MEAN_SPEED_MULTIPLIER, 1),
                           get_mean_speed(self)),
                      Num(self.weight, 1)),
                 Num(M_IN_KM, 1)),
            Num(self.duration, 1)),
       Num(HOUR_IN_MINUTES, 1))

Running_get_spent_calories(self) ==
  LET calories_multiplier == Num(CALORIES_MEAN_SPEED_MULTIPLIER, 1)
      calories_shift      == CALORIES_MEAN_SPEED_SHIFT
      mean_speed          == get_mean_speed(self)
      weight              == Num(self.weight, 1)
      m_in_km             == Num(M_IN_KM, 1)
      h_in_min            == Num(HOUR_IN_MINUTES, 1)
      duration            == Num(self.duration, 1)
  IN RMul(RMul(RDiv(RMul(RAdd(RMul(calories_multiplier, mean_speed),
                              calories_shift),
                         weight),
                    m_in_km),
               duration),
          h_in_min)

\* Walking's calories with the speed left in km/h.
SportsWalking_get_spent_calories_Kmh(self) ==
  LET weight     == Num(self.weight, 1)
      speed      == get_mean_speed(self)
      height_m   == RDiv(Num(self.height, 1), Num(SM_in_M, 1))
      duration_m == RMul(Num(self.duration, 1), Num(HOUR_IN_MINUTES, 1))
  IN RMul(RAdd(RMul(WALK_COEFFICIENT_1, weight),
               RMul(RMul(RDiv(RSquare(speed), height_m), WALK_COEFFICIENT_2),
                    weight)),
          duration_m)

SportsWalking_get_spent_calories(self) ==
  LET weight         == Num(self.weight, 1)
      walk_coef_1    == WALK_COEFFICIENT_1
      walk_coef_2    == WALK_COEFFICIENT_2
      kmh_in_ms      == KMH_in_MS
      mean_speed_kmh == get_mean_speed(self)
      mean_speed_ms  == RMul(mean_speed_kmh, kmh_in_ms)
      sm_in_m        == Num(SM_in_M, 1)
      height_s       == Num(self.height, 1)
      height_m       == RDiv(height_s, sm_in_m)
      duration_h     == Num(self.duration, 1)
      h_in_min       == Num(HOUR_IN_MINUTES, 1)
      duration_m     == RMul(duration_h, h_in_min)
  IN RMul(RAdd(RMul(walk_coef_1, weight),
               RMul(RMul(RDiv(RSquare(mean_speed_ms), height_m), walk_coef_2),
                    weight)),
          duration_m)

\* Swimming's calories with the coefficient added after the doubling.
Swimming_get_spent_calories_Late(self) ==
  RMul(RMul(RAdd(RMul(get_mean_speed(self), Num(SWIM_COEFFICIENT_2, 1)),
                 SWIM_COEFFICIENT_1),
            Num(self.weight, 1)),
       Num(self.duration, 1))

Swimming_get_spent_calories(self) ==
  LET mean_speed  == get_mean_speed(self)
      swim_coef_1 == SWIM_COEFFICIENT_1
      swim_coef_2 == Num(SWIM_COEFFICIENT_2, 1)
      weigth      == Num(self.weight, 1)
      duration    == Num(self.duration, 1)
  IN RMul(RMul(RMul(RAdd(mean_speed, swim_coef_1), swim_coef_2), weigth),
          duration)

\* The method resolution of self.get_spent_calories().
get_spent_calories(self) ==
  CASE self.cls = "Running"       -> Running_get_spent_calories(self)
    [] self.cls = "SportsWalking" -> SportsWalking_get_spent_calories(self)
    [] self.cls = "Swimming"      -> Swimming_get_spent_calories(self)
    [] OTHER                      -> Training_get_spent_calories(self)

\* The call InfoMessage(...) of show_training_info: the arguments are
\* evaluated left to right, and the first exception raised leaves the method.
InfoMessage_call(training_type, duration, distance, speed, calories) ==
  IF IsExc(distance) THEN distance
  ELSE IF IsExc(speed) THEN speed
  ELSE IF IsExc(calories) THEN calories
  ELSE InfoMessage(training_type, duration, distance, speed, calories)

show_training_info(self) ==
  InfoMessage_call(self.cls,
                   self.duration,
                   get_distance(self),
                   get_mean_speed(self),
                   get_spent_calories(self))

(***************************************************************************)
(* read_package: the class is looked up in the dictionary sport_types (a   *)
(* missing key raises KeyError with the key), then called with the items   *)
(* of data as its positional arguments (a number of arguments other than   *)
(* the parameters of __init__ raises TypeError).                           *)
(***************************************************************************)
sport_types == {"SWM", "RUN", "WLK"}

\* A read_package that returns None for a tag it does not know.
read_package_Silent(workout_type, data) ==
  IF workout_type \notin sport_types THEN [none |-> TRUE]
  ELSE CASE workout_type = "SWM" ->
              IF Len(data) # 5 THEN Exc("TypeError", "")
              ELSE Swimming_init(data[1], data[2], data[3], data[4], data[5])
         [] workout_type = "RUN" ->
              IF Len(data) # 3 THEN Exc("TypeError", "")
              ELSE Training_init("Running", data[1], data[2], data[3])
         [] workout_type = "WLK" ->
              IF Len(data) # 4 THEN Exc("TypeError", "")
              ELSE SportsWalking_init(data[1], data[2], data[3], data[4])

\* A read_package whose classes ignore the fields after their last parameter.
read_package_Lenient(workout_type, data) ==
  IF workout_type \notin sport_types THEN Exc("KeyError", workout_type)
  ELSE CASE workout_type = "SWM" ->
              IF Len(data) < 5 THEN Exc("TypeError", "")
              ELSE Swimming_init(data[1], data[2], data[3], data[4], data[5])
         [] workout_type = "RUN" ->
              IF Len(data) < 3 THEN Exc("TypeError", "")
              ELSE Training_init("Running", data[1], data[2], data[3])
         [] workout_type = "WLK" ->
              IF Len(data) < 4 THEN Exc("TypeError", "")
              ELSE SportsWalking_init(data[1], data[2], data[3], data[4])

read_package(workout_type, data) ==
  IF workout_type \notin sport_types THEN Exc("KeyError", workout_type)
  ELSE CASE workout_type = "SWM" ->
              IF Len(data) # 5 THEN Exc("TypeError", "")
              ELSE Swimming_init(data[1], data[2], data[3], data[4], data[5])
         [] workout_type = "RUN" ->
              IF Len(data) # 3 THEN Exc("TypeError", "")
              ELSE Training_init("Running", data[1], data[2], data[3])
         [] workout_type = "WLK" ->
              IF Len(data) # 4 THEN Exc("TypeError", "")
              ELSE SportsWalking_init(data[1], data[2], data[3], data[4])

\* main: the line it prints, or the exception that leaves it.
main_print(info) == IF IsExc(info) THEN info ELSE get_message(info)

main(training) == main_print(show_training_info(training))

\* The list of the script.
packages ==
  << <<"SWM", <<720, 1, 80, 25, 40>> >>,
     <<"RUN", <<15000, 1, 75>> >>,
     <<"WLK", <<9000, 1, 75, 180>> >> >>

(***************************************************************************)
(* The inputs of a caller that imports the module.                         *)
(***************************************************************************)
MaxDuration == 2
MaxFields == 6

Tags == sport_types \cup {"XYZ"}
Actions == {720, 15000}
Durations == -1 .. MaxDuration
Weights == {75, 80}
Fourths == {0, 25, 180}
Fifths == {20, 40}

\* Lists of two to MaxFields numbers.
DataLists ==
  { SubSeq(<<a, d, w, h, c>> \o [i \in 1 .. MaxFields - 5 |-> 1], 1, k) :
      a \in Actions, d \in Durations, w \in Weights, h \in Fourths,
      c \in Fifths, k \in 2 .. MaxFields }

(***************************************************************************)
(* The state.  name is the module's __name__: "__main__" when it runs as a *)
(* script, "homework" when it is imported and its functions are called by  *)
(* the importer.  training is the variable the record returned by          *)
(* read_package is bound to; call is the last call made (the function, the *)
(* tag and the number of fields given to read_package); ret is what that    *)
(* call returned or raised; pc and i are the script's position in its loop  *)
(* over packages; stdout holds the lines printed.                          *)
(***************************************************************************)
VARIABLES name, pc, i, training, call, ret, stdout

vars == <<name, pc, i, training, call, ret, stdout>>

None == [none |-> TRUE]

Call(op, tag, nargs) == [op |-> op, tag |-> tag, nargs |-> nargs]

Init ==
  /\ name \in {"__main__", "homework"}
  /\ pc = "for"
  /\ i = 1
  /\ training = None
  /\ call = Call("", "", 0)
  /\ ret = None
  /\ stdout = <<>>

\* for workout_type, data in packages: training = read_package(...)
ScriptRead ==
  /\ name = "__main__"
  /\ pc = "for"
  /\ i <= Len(packages)
  /\ \E r \in {read_package(packages[i][1], packages[i][2])} :
        /\ ret' = r
        /\ training' = IF IsExc(r) THEN training ELSE r
        /\ pc' = IF IsExc(r) THEN "raised" ELSE "main"
  /\ call' = Call("read_package", packages[i][1], Len(packages[i][2]))
  /\ UNCHANGED <<name, i, stdout>>

\* main(training), the second statement of the loop's body
ScriptMain ==
  /\ name = "__main__"
  /\ pc = "main"
  /\ \E r \in {main(training)} :
        /\ ret' = IF IsExc(r) THEN r ELSE None
        /\ stdout' = IF IsExc(r) THEN stdout ELSE Append(stdout, r)
        /\ pc' = IF IsExc(r) THEN "raised" ELSE "for"
        /\ i' = IF IsExc(r) THEN i ELSE i + 1
  /\ call' = Call("main", "", 1)
  /\ UNCHANGED <<name, training>>

\* training = read_package(workout_type, data), called by an importer
ReadPackage(workout_type, data) ==
  /\ name # "__main__"
  /\ \E r \in {read_package(workout_type, data)} :
        /\ ret' = r
        /\ training' = IF IsExc(r) THEN training ELSE r
  /\ call' = Call("read_package", workout_type, Len(data))
  /\ UNCHANGED <<name, pc, i, stdout>>

GetDistance ==
  /\ name # "__main__"
  /\ IsTraining(training)
  /\ ret' = get_distance(training)
  /\ call' = Call("get_distance", "", 0)
  /\ UNCHANGED <<name, pc, i, training, stdout>>

\* A get_mean_speed that keeps the speed it computed in the record.
GetMeanSpeedStoring ==
  /\ name # "__main__"
  /\ IsTraining(training)
  /\ ret' = get_mean_speed(training)
  /\ call' = Call("get_mean_speed", "", 0)
  /\ training' = [training EXCEPT !.duration = 1]
  /\ UNCHANGED <<name, pc, i, stdout>>

GetMeanSpeed ==
  /\ name # "__main__"
  /\ IsTraining(training)
  /\ ret' = get_mean_speed(training)
  /\ call' = Call("get_mean_speed", "", 0)
  /\ UNCHANGED <<name, pc, i, training, stdout>>

GetSpentCalories ==
  /\ name # "__main__"
  /\ IsTraining(training)
  /\ ret' = get_spent_calories(training)
  /\ call' = Call("get_spent_calories", "", 0)
  /\ UNCHANGED <<name, pc, i, training, stdout>>

ShowTrainingInfo ==
  /\ name # "__main__"
  /\ IsTraining(training)
  /\ ret' = show_training_info(training)
  /\ call' = Call("show_training_info", "", 0)
  /\ UNCHANGED <<name, pc, i, training, stdout>>

\* get_message, called on the InfoMessage that show_training_info returned
GetMessage ==
  /\ name # "__main__"
  /\ IsInfoMessage(ret)
  /\ ret' = get_message(ret)
  /\ call' = Call("get_message", "", 0)
  /\ UNCHANGED <<name, pc, i, training, stdout>>

Next ==
  \/ ScriptRead
  \/ ScriptMain
  \/ \E workout_type \in Tags, data \in DataLists :
        ReadPackage(workout_type, data)
  \/ GetDistance
  \/ GetMeanSpeed
  \/ GetSpentCalories
  \/ ShowTrainingInfo
  \/ GetMessage

Spec == Init /\ [][Next]_vars

(***************************************************************************)
(* The properties.  Summary: show_training_info has just returned an       *)
(* InfoMessage for the record training.  The right-hand sides are closed   *)
(* forms in the record's fields, worked out by hand from the formulas the  *)
(* properties state; they use none of the methods above.                   *)
(***************************************************************************)
Summary == call.op = "show_training_info" /\ IsInfoMessage(ret)

Dec3(neg, int, frac) == [neg |-> neg, int |-> int, frac |-> frac]

SwimSample == Swimming_init(720, 1, 80, 25, 40)
RunSample == Training_init("Running", 15000, 1, 75)

\* C1 as stated: the distance of a Swimming summary is
\* length_pool * count_pool / 1000.
C1_DistanceFromPool ==
  (Summary /\ training.cls = "Swimming" /\ training.duration > 0)
    => REq(ret.distance, Num(training.length_pool * training.count_pool, 1000))

\* C1 amended: the distance of a Swimming summary is action * 1.38 / 1000,
\* whatever length_pool and count_pool are.
C1_DistanceFromStrokes ==
  (Summary /\ training.cls = "Swimming" /\ training.duration > 0)
    => REq(ret.distance, Num(training.action * 138, 100000))

C1_Witness ==
  /\ Summary
  /\ training = SwimSample
  /\ REq(ret.distance, Num(9936, 10000))

\* C2 as stated: read_package with a tag outside {SWM, RUN, WLK} fails with
\* an UnknownActivityKind error that names the tag.
C2_UnknownActivityKind ==
  (call.op = "read_package" /\ call.tag \notin {"SWM", "RUN", "WLK"})
    => (IsExc(ret) /\ ret.exc = "UnknownActivityKind" /\ ret.arg = call.tag)

\* C2 amended: read_package with a tag outside {SWM, RUN, WLK} raises
\* KeyError with the tag as its argument, and returns neither a record nor
\* None.
C2_KeyError ==
  (call.op = "read_package" /\ call.tag \notin {"SWM", "RUN", "WLK"})
    => (ret = Exc("KeyError", call.tag) /\ ~IsTraining(ret) /\ ret # None)

C2_Witness ==
  /\ call = Call("read_package", "XYZ", 3)
  /\ ret = Exc("KeyError", "XYZ")

C3_Arity(tag) ==
  CASE tag = "RUN" -> 3 [] tag = "WLK" -> 4 [] tag = "SWM" -> 5

\* C3 as stated: read_package with a known tag and a number of fields other
\* than the variant's arity fails with an InvalidFieldArity error.
C3_InvalidFieldArity ==
  (/\ call.op = "read_package"
   /\ call.tag \in {"SWM", "RUN", "WLK"}
   /\ call.nargs # C3_Arity(call.tag))
    => (IsExc(ret) /\ ret.exc = "InvalidFieldArity")

\* C3 amended: read_package with a known tag and a number of fields other
\* than the variant's arity (RUN 3, WLK 4, SWM 5) raises TypeError and
\* returns no record.
C3_TypeError ==
  (/\ call.op = "read_package"
   /\ call.tag \in {"SWM", "RUN", "WLK"}
   /\ call.nargs # C3_Arity(call.tag))
    => (IsExc(ret) /\ ret.exc = "TypeError" /\ ~IsTraining(ret))

C3_Witness ==
  /\ call = Call("read_package", "RUN", 2)
  /\ IsExc(ret)
  /\ ret.exc = "TypeError"

\* C4: a record with a duration of zero or less is rejected with an
\* InvalidMeasurement failure, and no summary is produced from it.
C4_NonPositiveDurationRejected ==
  (call.op = "show_training_info" /\ training.duration <= 0)
    => (IsExc(ret) /\ ret.exc = "InvalidMeasurement")

\* C5 as stated: in the summary of a record of any class with duration > 0,
\* speed = distance / duration.
C5_SpeedIsDistanceOverDuration ==
  (Summary /\ training.duration > 0)
    => REq(RMul(ret.speed, Num(ret.duration, 1)), ret.distance)

\* C5 amended: in the summary of a record with duration > 0, speed =
\* distance / duration for Running and SportsWalking, and speed =
\* (length_pool * count_pool / 1000) / duration for Swimming.
C5_SpeedByClass ==
  (Summary /\ training.duration > 0)
    => IF training.cls = "Swimming"
       THEN REq(RMul(ret.speed, Num(ret.duration, 1)),
                Num(training.length_pool * training.count_pool, 1000))
       ELSE REq(RMul(ret.speed, Num(ret.duration, 1)), ret.distance)

C5_Witness ==
  /\ Summary
  /\ training = Training_init("Running", 15000, 2, 75)
  /\ REq(ret.speed, Num(4875, 1000))
  /\ REq(ret.distance, Num(975, 100))

\* C6: the calories of a Running summary with duration > 0 are
\* (18 * mean_speed + 1.79) * weight / 1000 * duration * 60 with mean_speed =
\* (action * 0.65 / 1000) / duration, which is
\* (702 * action * weight + 107400 * weight * duration) / 1000000.
C6_RunningCalories ==
  (Summary /\ training.cls = "Running" /\ training.duration > 0)
    => REq(ret.calories,
           Num(702 * training.action * training.weight
                 + 107400 * training.weight * training.duration,
               1000000))

C6_Witness ==
  /\ Summary
  /\ training = Training_init("Running", 720, 2, 80)
  /\ REq(ret.calories, Num(576192, 10000))

\* C7 as stated: the summary of Running (15000, 1, 75) has distance 9.75,
\* speed 9.75 and calories that round to 799.175.
C7_RunSample799 ==
  (Summary /\ training = RunSample)
    => /\ REq(ret.distance, Num(975, 100))
       /\ REq(ret.speed, Num(975, 100))
       /\ Fmt3(ret.calories) = Dec3(FALSE, 799, 175)

\* C7 amended: the summary of Running (15000, 1, 75) has distance 9.75,
\* speed 9.75 and calories that round to 797.805, and the script prints
\* these as its second line.
C7_RunSample797 ==
  /\ (Summary /\ training = RunSample)
       => /\ REq(ret.distance, Num(975, 100))
          /\ REq(ret.speed, Num(975, 100))
          /\ Fmt3(ret.calories) = Dec3(FALSE, 797, 805)
  /\ (name = "__main__" /\ Len(stdout) >= 2)
       => stdout[2] = [text |-> <<"Running", Dec3(FALSE, 1, 0),
                                  Dec3(FALSE, 9, 750), Dec3(FALSE, 9, 750),
                                  Dec3(FALSE, 797, 805)>>]

C7_Witness ==
  /\ Summary
  /\ training = RunSample
  /\ Fmt3(ret.calories) = Dec3(FALSE, 797, 805)

\* 10^14 and the square of a natural, as naturals of unbounded size.
C8_Ten14 == BMul(NatToBig(10000000), NatToBig(10000000))
C8_Square(k) == BMul(NatToBig(k), NatToBig(k))

\* C8: the calories of a SportsWalking summary with duration > 0 and
\* height > 0 are (0.035 * weight + ((mean_speed * 0.278)^2 / (height / 100))
\* * 0.029 * weight) * (duration * 60) with mean_speed =
\* (action * 0.65 / 1000) / duration, which is
\* 21 * weight * duration / 10
\*   + 568153326 * action^2 * weight / (10^14 * duration * height).
C8_WalkingCalories ==
  (/\ Summary
   /\ training.cls = "SportsWalking"
   /\ training.duration > 0
   /\ training.height > 0)
    => REq(ret.calories,
           RAdd(Num(21 * training.weight * training.duration, 10),
                [s |-> 1,
                 n |-> BMul(NatToBig(568153326),
                            BMul(C8_Square(training.action),
                                 NatToBig(training.weight))),
                 d |-> BMul(C8_Ten14,
                            NatToBig(training.duration * training.height))]))

C8_Witness ==
  /\ Summary
  /\ training = SportsWalking_init(15000, 2, 75, 180)
  /\ Fmt3(ret.calories) = Dec3(FALSE, 581, 322)

\* C9: the calories of a Swimming summary with duration > 0 are
\* (mean_speed + 1.1) * 2 * weight * duration with mean_speed =
\* (length_pool * count_pool / 1000) / duration, which is
\* (2 * weight * length_pool * count_pool + 2200 * weight * duration) / 1000,
\* whatever action is.
C9_SwimmingCalories ==
  (Summary /\ training.cls = "Swimming" /\ training.duration > 0)
    => REq(ret.calories,
           Num(2 * training.weight * training.length_pool * training.count_pool
                 + 2200 * training.weight * training.duration,
               1000))

C9_Witness ==
  /\ Summary
  /\ training = SwimSample
  /\ REq(ret.calories, Num(336, 1))
  /\ REq(ret.speed, Num(1, 1))

Methods ==
  {"get_distance", "get_mean_speed", "get_spent_calories", "show_training_info"}

====
